---- MODULE Spec2Model ----
(***************************************************************************)
(* Pick-and-place sequencer and grasp/drop tracker of the robot-arm        *)
(* simulator (App, Scene, SimulationController).                           *)
(*                                                                         *)
(* Lengths are integers in units of 1/300 scene unit (0.01 = 3, 0.2 = 60,  *)
(* 0.8/1.5 = 160); times are integers in units of 0.5 s.  Distances are    *)
(* compared through their squares, so no comparison is rounded; only the   *)
(* interpolated waypoint Lerp is rounded to the length unit.               *)
(*                                                                         *)
(* React state is split into the value the last render committed (the      *)
(* variables named as in the source: every closure of a frame callback or  *)
(* effect reads these) and the value queued by the setState calls made     *)
(* since (pending).  Refs (useRef) are written in place.                   *)
(*                                                                         *)
(* Angles are integers in units of pi/314 (about 0.01 rad).  The chain of   *)
(* calculateChain and the rendered arm are computed on whole quarter turns *)
(* only; what the CCD solver reads off the geometry (its damped angle, how *)
(* soon its tip is on the target) is an input of each solveIK call, and    *)
(* the tool-tip world position that the tracker reads from the rendered    *)
(* arm is an input of each frame.                                          *)
(***************************************************************************)
EXTENDS Integers, Sequences, FiniteSets, TLC

\* ---------------------------------------------------------------- constants
BOX_SIZE == 240
FALL_SPEED == 60
GROUND_EPS == 3
GRAB_THRESHOLD == 360
TIP_OFFSET == 60
SPEED == 600
MIN_DURATION == 1
GRIP_WAIT == 1
APPROACH_HEIGHT == 600
PICK_OFFSET == 60
LIFT_PICK_HEIGHT == 900
TRAVEL_HEIGHT == 900
DROP_HEIGHT == 300
LIFT_DROP_HEIGHT == 600

PI == 314
HALF_PI == 157
IK_ITERATIONS == 5
IK_TOLERANCE == 3
BASE_HEIGHT == 330
UPPER_ARM == 1200
FOREARM == 450
WRIST_DIST == 60
FLANGE_DIST == 240
TIP_DIST == 150
ARM_SHOULDER == 330
ARM_ELBOW == 1200
ARM_HOUSING == 450
ARM_ROLL == 450
ARM_WRIST == 60
ARM_FLANGE == 240
ARM_GRIPPER == 90
ARM_TCP == 150

PICK_AREA_POS == <<1200, 15, 0>>
DROP_AREA_POS == <<-1200, 15, 0>>
\* calculateChain(HOME_JOINTS).endEffector = (-2.1481, 7.5946, 0)
HomeTip == <<-644, 2278, 0>>
INITIAL_IK_TARGET == <<1200, 600, 0>>

NoBox == "null"

\* tipPos of a frame that neither tried to grab nor holds an object
NoTip == <<0, 0, 0>>

Phases ==
    <<"IDLE", "APPROACH", "DESCEND_PICK", "GRIP", "LIFT_PICK", "TRAVEL",
      "DESCEND_DROP", "RELEASE", "LIFT_DROP", "HOME">>

\* ------------------------------------------------------------------- bounds
MaxTriggers == 2
MaxStale == 1

MaxSpawn == 1

\* Date.now() as a frame reads it: moved on since the previous frame by less
\* than a time unit, or by one (frames come at least twice a second).
ClockSteps == {0, 1}

\* Tool-tip world positions a frame may read from the rendered arm during a
\* run, next to the arm standing exactly on the IK target: high above the
\* drop area.
StrayTips == {<<-1200, 960, 0>>}

\* Tool-tip positions of an arm moved by hand: 0.5 from the first object (1.0
\* from the second, 2.0 from the third), and high above the drop area.
ManualTips == {<<1200, 180, 150>>, <<-1200, 960, 0>>}

\* Math.random() of handleAddObject: the (x, z) of a spawned object
SpawnSpots == {<<1200, 150>>}
SpawnShapes == {"sphere", "cylinder"}

\* ids of spawned objects (Math.random().toString(36) in the source)
SpawnIds == <<"4", "5", "6">>

\* Damped angles of a solveIK call that turns every joint it visits by a
\* quarter turn, one way or the other
IkAngles == {-157, 157}

\* Joints a solveIK call turns before its tip is within 0.01 of the target:
\* none, three, or all it visits
IkFar == {0, 3, 25}

\* calculateChain(joints).endEffector for joints off the quarter turns
FkTips == {HomeTip}

\* Positions the IK target gizmo is dragged to
DragSpots == {<<1200, 900, 300>>}

\* Slider thumb positions, as angles: one in every range, two beyond
SliderKeys == {"j2", "j6"}
SliderInputs == {-400, 30, 400}

\* no kinematics function called on its own yet
NoCall == [op |-> "none"]

\* Arguments of solveIK called on its own: joints in and out of their
\* ranges, targets on and off the tip of the zero pose, iteration counts
IkInputs ==
    {[j1 |-> 0, j2 |-> 0, j3 |-> 0, j4 |-> 0, j5 |-> 0, j6 |-> 0],
     [j1 |-> 0, j2 |-> 20, j3 |-> 50, j4 |-> 0, j5 |-> -50, j6 |-> 0],
     [j1 |-> 0, j2 |-> 0, j3 |-> 0, j4 |-> 0, j5 |-> 0, j6 |-> 400],
     [j1 |-> -400, j2 |-> 200, j3 |-> 0, j4 |-> 0, j5 |-> 0, j6 |-> 0]}
IkTargets == {<<0, 2430, 0>>, <<1200, 600, 0>>}
IterationCounts == {0, 1, 5}

\* Joint angles of calculateChain and of the rendered arm taken on their
\* own: every joint at a quarter turn either way or at 0
QuarterAngles == {-157, 0, 157}

VARIABLES
    phase, gripperOpen, boxes, ikTargetPos, sequenceTrigger, isSequenceRunning,
    joints, ikMode,
    pending,
    heldBoxId, prevGripperOpen, phaseStartTime, startPos, endPos, targetBoxId,
    lastTrigger,
    now, tipPos, staleTicks,
    completions, visited, gripWrites,
    call

vars ==
    <<phase, gripperOpen, boxes, ikTargetPos, sequenceTrigger, isSequenceRunning,
      joints, ikMode, pending, heldBoxId, prevGripperOpen, phaseStartTime, startPos, endPos,
      targetBoxId, lastTrigger, now, tipPos, staleTicks, completions, visited,
      gripWrites, call>>

\* ------------------------------------------------------------------ vectors
Max(a, b) == IF a >= b THEN a ELSE b
Min(a, b) == IF a <= b THEN a ELSE b

Add(a, b) == <<a[1] + b[1], a[2] + b[2], a[3] + b[3]>>

DistSq(a, b) ==
    (a[1] - b[1]) * (a[1] - b[1]) + (a[2] - b[2]) * (a[2] - b[2])
        + (a[3] - b[3]) * (a[3] - b[3])

RECURSIVE SqrtFrom(_, _)
SqrtFrom(n, r) == IF (r + 1) * (r + 1) > n THEN r ELSE SqrtFrom(n, r + 1)

RECURSIVE SqrtCoarse(_, _)
SqrtCoarse(n, r) == IF (r + 64) * (r + 64) > n THEN SqrtFrom(n, r) ELSE SqrtCoarse(n, r + 64)

\* Vector3.distanceTo, rounded down to the length unit
Dist(a, b) == SqrtCoarse(DistSq(a, b), 0)


\* ------------------------------------------------------------ scene objects
Box(id, pos, shape) == [id |-> id, pos |-> pos, shape |-> shape]

InitialBoxes ==
    <<Box("1", <<1200, BOX_SIZE \div 2, 0>>, "box"),
      Box("2", <<1200, BOX_SIZE \div 2, 450>>, "box"),
      Box("3", <<1200, BOX_SIZE \div 2, -450>>, "box")>>

\* boxes.find(b => b.position[0] > 0): index of the first match, 0 for none
RECURSIVE FindAvailableFrom(_, _)
FindAvailableFrom(bs, i) ==
    IF i > Len(bs) THEN 0
    ELSE IF bs[i].pos[1] > 0 THEN i
    ELSE FindAvailableFrom(bs, i + 1)

FindAvailable(bs) == FindAvailableFrom(bs, 1)

\* boxes.find(b => b.id === id): index of the first match, 0 for none
RECURSIVE FindByIdFrom(_, _, _)
FindByIdFrom(bs, id, i) ==
    IF i > Len(bs) THEN 0
    ELSE IF bs[i].id = id THEN i
    ELSE FindByIdFrom(bs, id, i + 1)

FindById(bs, id) == FindByIdFrom(bs, id, 1)

GroundOffset(shape) ==
    IF shape = "sphere" THEN (BOX_SIZE * 2) \div 3 ELSE BOX_SIZE \div 2

\* ----------------------------------------------------- sequencer arithmetic
\* Arrived at half the speed
ArrivedAtHalfSpeed(sp, ep, elapsed) ==
    /\ elapsed >= MIN_DURATION
    /\ elapsed * SPEED >= 0
    /\ (elapsed * SPEED) * (elapsed * SPEED) >= 4 * DistSq(sp, ep)

\* t >= 1 where t = min(1, elapsed / max(0.5, dist / speed))
Arrived(sp, ep, elapsed) ==
    /\ elapsed >= MIN_DURATION
    /\ elapsed * SPEED >= 0
    /\ (elapsed * SPEED) * (elapsed * SPEED) >= DistSq(sp, ep)

Scale(sp, ep, num, den) ==
    <<sp[1] + ((ep[1] - sp[1]) * num) \div den,
      sp[2] + ((ep[2] - sp[2]) * num) \div den,
      sp[3] + ((ep[3] - sp[3]) * num) \div den>>

\* new Vector3().lerpVectors(startPos, endPos, t)
Lerp(sp, ep, elapsed) ==
    IF Arrived(sp, ep, elapsed) THEN ep
    ELSE IF DistSq(sp, ep) <= (MIN_DURATION * SPEED) * (MIN_DURATION * SPEED)
         THEN Scale(sp, ep, elapsed, MIN_DURATION)
         ELSE Scale(sp, ep, elapsed * SPEED, Dist(sp, ep))

\* ------------------------------------------------------------ tracker parts
\* ClosestFrom that never lowers minDistance: the last object within 1.2
RECURSIVE ClosestLastWithin(_, _, _, _, _)
ClosestLastWithin(bs, i, tip, best, bestSq) ==
    IF i > Len(bs) THEN best
    ELSE IF DistSq(tip, bs[i].pos) < bestSq
         THEN ClosestLastWithin(bs, i + 1, tip, bs[i].id, bestSq)
         ELSE ClosestLastWithin(bs, i + 1, tip, best, bestSq)

\* boxes.forEach with minDistance = 1.2: the first strictly closest object
RECURSIVE ClosestFrom(_, _, _, _, _)
ClosestFrom(bs, i, tip, best, bestSq) ==
    IF i > Len(bs) THEN best
    ELSE IF DistSq(tip, bs[i].pos) < bestSq
         THEN ClosestFrom(bs, i + 1, tip, bs[i].id, DistSq(tip, bs[i].pos))
         ELSE ClosestFrom(bs, i + 1, tip, best, bestSq)

ClosestBox(bs, tip) ==
    ClosestFrom(bs, 1, tip, NoBox, GRAB_THRESHOLD * GRAB_THRESHOLD)

\* setBoxes(prev => prev.map(...)) of the held branch
MoveHeld(bs, held, tip) ==
    [i \in DOMAIN bs |-> IF bs[i].id = held THEN [bs[i] EXCEPT !.pos = tip] ELSE bs[i]]

\* FallOne without the Math.max against the resting height
FallOneUndershoots(b) ==
    IF b.pos[2] > GroundOffset(b.shape) + GROUND_EPS
    THEN [b EXCEPT !.pos = <<b.pos[1], b.pos[2] - FALL_SPEED, b.pos[3]>>]
    ELSE b

FallOne(b) ==
    IF b.pos[2] > GroundOffset(b.shape) + GROUND_EPS
    THEN [b EXCEPT !.pos = <<b.pos[1], Max(GroundOffset(b.shape), b.pos[2] - FALL_SPEED),
                             b.pos[3]>>]
    ELSE b

\* setBoxes(prev => ...) of the gravity branch
Gravity(bs) == [i \in DOMAIN bs |-> FallOne(bs[i])]


\* --------------------------------------------------------------- kinematics
\* Angles are integers in units of pi/314 (about 0.01 rad, the sliders'
\* step), so that a quarter turn is exactly HALF_PI.
Clamp(v, lo, hi) == Max(lo, Min(hi, v))

LIMITS ==
    [j1 |-> [min |-> 0 - PI, max |-> PI],
     j2 |-> [min |-> 0 - HALF_PI, max |-> HALF_PI],
     j3 |-> [min |-> 0 - ((PI * 2) \div 3), max |-> (PI * 2) \div 3],
     j4 |-> [min |-> 0 - PI, max |-> PI],
     j5 |-> [min |-> 0 - HALF_PI, max |-> HALF_PI],
     j6 |-> [min |-> 0 - PI, max |-> PI]]

HOME_JOINTS == [j1 |-> 0, j2 |-> 20, j3 |-> 50, j4 |-> 0, j5 |-> -50, j6 |-> 0]

INITIAL_JOINTS == [j1 |-> 0, j2 |-> 0, j3 |-> 0, j4 |-> 0, j5 |-> 0, j6 |-> 0]

JointKeys == <<"j6", "j5", "j4", "j3", "j2", "j1">>

WithinLimits(j) ==
    \A i \in DOMAIN JointKeys :
        /\ j[JointKeys[i]] >= LIMITS[JointKeys[i]].min
        /\ j[JointKeys[i]] <= LIMITS[JointKeys[i]].max

\* Math.cos and Math.sin, on whole quarter turns
Cos(a) == CASE (a \div HALF_PI) % 4 = 0 -> 1
            [] (a \div HALF_PI) % 4 = 2 -> -1
            [] OTHER -> 0

Sin(a) == CASE (a \div HALF_PI) % 4 = 1 -> 1
            [] (a \div HALF_PI) % 4 = 3 -> -1
            [] OTHER -> 0

QuarterTurns(j) == \A i \in DOMAIN JointKeys : j[JointKeys[i]] % HALF_PI = 0

\* v turned by the angle a about the Y axis or the Z axis
RotateY(a, v) ==
    <<v[1] * Cos(a) + v[3] * Sin(a), v[2], v[3] * Cos(a) - v[1] * Sin(a)>>

RotateZ(a, v) ==
    <<v[1] * Cos(a) - v[2] * Sin(a), v[1] * Sin(a) + v[2] * Cos(a), v[3]>>

\* new Quaternion().setFromAxisAngle(axis, angle)
SetFromAxisAngle(axis, angle) == <<axis, angle>>

\* Vector3.applyQuaternion(rot), rot being the product of the axis rotations
\* listed: the last factor acts first
RECURSIVE ApplyQuaternion(_, _)
ApplyQuaternion(v, rot) ==
    IF rot = <<>> THEN v
    ELSE LET q == rot[Len(rot)]
         IN  ApplyQuaternion(IF q[1] = "y" THEN RotateY(q[2], v) ELSE RotateZ(q[2], v),
                             SubSeq(rot, 1, Len(rot) - 1))

\* CalculateChain without the translation from the flange to the tip
ChainEndsAtFlange(j) ==
    LET r1 == <<SetFromAxisAngle("y", 0 - j.j1)>>
        p1 == <<0, BASE_HEIGHT, 0>>
        r2 == Append(r1, SetFromAxisAngle("z", j.j2))
        p3 == Add(p1, ApplyQuaternion(<<0, UPPER_ARM, 0>>, r2))
        r3 == Append(r2, SetFromAxisAngle("z", j.j3))
        p4 == Add(p3, ApplyQuaternion(<<0, FOREARM, 0>>, r3))
        r4 == Append(r3, SetFromAxisAngle("y", j.j4))
        p5 == Add(p4, ApplyQuaternion(<<0, WRIST_DIST, 0>>, r4))
        r5 == Append(r4, SetFromAxisAngle("z", j.j5))
        p6 == Add(p5, ApplyQuaternion(<<0, FLANGE_DIST, 0>>, r5))
        r6 == Append(r5, SetFromAxisAngle("y", j.j6))
    IN  [positions |-> <<p1, p1, p3, p4, p5, p6, p6>>,
         rotations |-> <<r1, r2, r3, r4, r5, r6>>,
         endEffector |-> p6]

\* calculateChain(joints), for joints on whole quarter turns
CalculateChain(j) ==
    LET r1 == <<SetFromAxisAngle("y", 0 - j.j1)>>
        p1 == <<0, BASE_HEIGHT, 0>>
        r2 == Append(r1, SetFromAxisAngle("z", j.j2))
        p3 == Add(p1, ApplyQuaternion(<<0, UPPER_ARM, 0>>, r2))
        r3 == Append(r2, SetFromAxisAngle("z", j.j3))
        p4 == Add(p3, ApplyQuaternion(<<0, FOREARM, 0>>, r3))
        r4 == Append(r3, SetFromAxisAngle("y", j.j4))
        p5 == Add(p4, ApplyQuaternion(<<0, WRIST_DIST, 0>>, r4))
        r5 == Append(r4, SetFromAxisAngle("z", j.j5))
        p6 == Add(p5, ApplyQuaternion(<<0, FLANGE_DIST, 0>>, r5))
        r6 == Append(r5, SetFromAxisAngle("y", j.j6))
        p7 == Add(p6, ApplyQuaternion(<<0, TIP_DIST, 0>>, r6))
    IN  [positions |-> <<p1, p1, p3, p4, p5, p6, p7>>,
         rotations |-> <<r1, r2, r3, r4, r5, r6>>,
         endEffector |-> p7]

\* World position of the group RobotArm hands out as tipRef: every group
\* places its children at its position, turned by its rotation
RenderedTip(j) ==
    LET tcp == <<0, ARM_TCP, 0>>
        gripper == Add(<<0, ARM_GRIPPER, 0>>, tcp)
        flange == Add(<<0, ARM_FLANGE, 0>>, RotateY(j.j6, gripper))
        wrist == Add(<<0, ARM_WRIST, 0>>, RotateZ(j.j5, flange))
        roll == Add(<<0, ARM_ROLL, 0>>, RotateY(j.j4, wrist))
        housing == Add(<<0, ARM_HOUSING, 0>>, roll)
        elbow == Add(<<0, ARM_ELBOW, 0>>, RotateZ(j.j3, housing))
        shoulder == Add(<<0, ARM_SHOULDER, 0>>, RotateZ(j.j2, elbow))
    IN  RotateY(0 - j.j1, shoulder)

\* tipPos.distanceTo(targetPosition) < 0.01 for the tip of joints j: computed
\* on whole quarter turns; elsewhere the tip is taken to be that close once
\* the solver has turned joints far times
CloseEnough(j, target, turned, far) ==
    IF QuarterTurns(j)
    THEN DistSq(CalculateChain(j).endEffector, target) < IK_TOLERANCE * IK_TOLERANCE
    ELSE turned >= far

\* The loops of solveIK from the k-th visit on (visit k is key k % 6 of pass
\* k \div 6), turned joints having been turned so far.  angle is the damped
\* angle the projections yield, taken to be the same at every visit.
RECURSIVE IkLoop(_, _, _, _, _, _, _)
IkLoop(j, k, turned, target, iterations, angle, far) ==
    IF k >= iterations * Len(JointKeys) THEN j
    ELSE LET key == JointKeys[(k % Len(JointKeys)) + 1]
         IN  IF key = "j6"
             THEN IkLoop(j, k + 1, turned, target, iterations, angle, far)
             ELSE IF CloseEnough(j, target, turned, far)
             THEN IkLoop(j, ((k \div Len(JointKeys)) + 1) * Len(JointKeys), turned,
                         target, iterations, angle, far)
             ELSE IkLoop([j EXCEPT ![key] =
                             Clamp(IF key = "j1" THEN @ - angle ELSE @ + angle,
                                   LIMITS[key].min, LIMITS[key].max)],
                         k + 1, turned + 1, target, iterations, angle, far)

\* solveIK(targetPosition, currentJoints, iterations)
SolveIK(target, j, iterations, angle, far) ==
    IkLoop(j, 0, 0, target, iterations, angle, far)

\* ------------------------------------------------------- the frame callback
Committed ==
    [phase |-> phase, gripperOpen |-> gripperOpen, boxes |-> boxes,
     ikTargetPos |-> ikTargetPos, sequenceTrigger |-> sequenceTrigger,
     isSequenceRunning |-> isSequenceRunning, joints |-> joints, ikMode |-> ikMode]

\* The values a frame works on: the queued React state, the refs and the
\* clock it reads.  fired counts the onSequenceComplete calls of the frame,
\* writes lists its setGripperOpen calls.
FrameStart(clock) ==
    [phase |-> pending.phase, gripperOpen |-> pending.gripperOpen,
     ikTargetPos |-> pending.ikTargetPos,
     isSequenceRunning |-> pending.isSequenceRunning,
     phaseStartTime |-> phaseStartTime, startPos |-> startPos, endPos |-> endPos,
     now |-> clock, fired |-> 0, writes |-> <<>>]

\* setPhase(p); phaseStartTime.current = now.  Only now - phaseStartTime is
\* ever read, so the clock's epoch is moved to the write: both become 0.
EnterPhase(s, p) == [s EXCEPT !.phase = p, !.phaseStartTime = 0, !.now = 0]

\* onSequenceComplete() = App.handleSequenceComplete
OnSequenceComplete(s) == [s EXCEPT !.isSequenceRunning = FALSE, !.fired = @ + 1]

\* setGripperOpen(open), noted with the phase the frame has just queued
SetGripperOpen(s, open) ==
    [s EXCEPT !.gripperOpen = open, !.writes = Append(@, <<s.phase, open>>)]

\* ApproachDone without the abort branch
ApproachNeverAborts(s, lerp) ==
    LET s1 == [EnterPhase(s, "DESCEND_PICK") EXCEPT !.startPos = lerp]
        i == FindById(boxes, targetBoxId)
    IN  IF i # 0
        THEN [s1 EXCEPT !.endPos = Add(boxes[i].pos, <<0, PICK_OFFSET, 0>>)]
        ELSE s1

ApproachDone(s, lerp) ==
    LET s1 == [EnterPhase(s, "DESCEND_PICK") EXCEPT !.startPos = lerp]
        i == FindById(boxes, targetBoxId)
    IN  IF i # 0
        THEN [s1 EXCEPT !.endPos = Add(boxes[i].pos, <<0, PICK_OFFSET, 0>>)]
        ELSE OnSequenceComplete([s1 EXCEPT !.phase = "IDLE"])

\* DescendPickDone without setGripperOpen(false)
DescendPickKeepsGripper(s) == EnterPhase(s, "GRIP")

DescendPickDone(s) == SetGripperOpen(EnterPhase(s, "GRIP"), FALSE)

GripDone(s, elapsed) ==
    IF elapsed > GRIP_WAIT
    THEN [EnterPhase(s, "LIFT_PICK") EXCEPT
            !.startPos = ikTargetPos,
            !.endPos = Add(ikTargetPos, <<0, LIFT_PICK_HEIGHT, 0>>)]
    ELSE s

\* LiftPickDone with the wrong successor phase
LiftPickSkipsTravel(s) ==
    [EnterPhase(s, "DESCEND_DROP") EXCEPT
        !.startPos = ikTargetPos,
        !.endPos = <<DROP_AREA_POS[1], DROP_HEIGHT, DROP_AREA_POS[3]>>]

LiftPickDone(s) ==
    [EnterPhase(s, "TRAVEL") EXCEPT
        !.startPos = ikTargetPos,
        !.endPos = <<DROP_AREA_POS[1], TRAVEL_HEIGHT, DROP_AREA_POS[3]>>]

TravelDone(s) ==
    [EnterPhase(s, "DESCEND_DROP") EXCEPT
        !.startPos = ikTargetPos,
        !.endPos = <<DROP_AREA_POS[1], DROP_HEIGHT, DROP_AREA_POS[3]>>]

DescendDropDone(s) == SetGripperOpen(EnterPhase(s, "RELEASE"), TRUE)

ReleaseDone(s, elapsed) ==
    IF elapsed > GRIP_WAIT
    THEN [EnterPhase(s, "LIFT_DROP") EXCEPT
            !.startPos = ikTargetPos,
            !.endPos = Add(ikTargetPos, <<0, LIFT_DROP_HEIGHT, 0>>)]
    ELSE s

LiftDropDone(s) ==
    [EnterPhase(s, "HOME") EXCEPT !.startPos = ikTargetPos, !.endPos = HomeTip]

\* HomeDone that starts the HOME segment again instead of queueing IDLE
HomeRestarts(s) == EnterPhase(s, "HOME")

HomeDone(s) == OnSequenceComplete([s EXCEPT !.phase = "IDLE"])

\* switch (phase) of the frame callback, taken when t >= 1
PhaseTransition(s, lerp, elapsed) ==
    CASE phase = "APPROACH" -> ApproachDone(s, lerp)
      [] phase = "DESCEND_PICK" -> DescendPickDone(s)
      [] phase = "GRIP" -> GripDone(s, elapsed)
      [] phase = "LIFT_PICK" -> LiftPickDone(s)
      [] phase = "TRAVEL" -> TravelDone(s)
      [] phase = "DESCEND_DROP" -> DescendDropDone(s)
      [] phase = "RELEASE" -> ReleaseDone(s, elapsed)
      [] phase = "LIFT_DROP" -> LiftDropDone(s)
      [] phase = "HOME" -> HomeDone(s)
      [] OTHER -> s

\* "Sequence Logic" of the frame callback
SequenceLogic(clock) ==
    IF phase = "IDLE" THEN FrameStart(clock)
    ELSE LET elapsed == clock - phaseStartTime
             lerp == Lerp(startPos, endPos, elapsed)
             s0 == IF phase \notin {"GRIP", "RELEASE"}
                   THEN [FrameStart(clock) EXCEPT !.ikTargetPos = lerp]
                   ELSE FrameStart(clock)
         IN  IF Arrived(startPos, endPos, elapsed)
             THEN PhaseTransition(s0, lerp, elapsed)
             ELSE s0

\* tipRef.current.getWorldPosition(tipPos); tipPos.y -= 0.2
GripperReference(tip) == Add(tip, <<0, 0 - TIP_OFFSET, 0>>)

\* HeldAfter without "Handle Releasing"
HeldAfterNoRelease(ref) ==
    LET closest == ClosestBox(boxes, ref)
    IN  IF prevGripperOpen /\ ~gripperOpen /\ closest # NoBox
        THEN closest
        ELSE heldBoxId

\* "Handle Grabbing" and "Handle Releasing": the new heldBoxId.current
HeldAfter(ref) ==
    LET closest == ClosestBox(boxes, ref)
        grabbed == IF prevGripperOpen /\ ~gripperOpen /\ closest # NoBox
                   THEN closest
                   ELSE heldBoxId
    IN  IF ~prevGripperOpen /\ gripperOpen THEN NoBox ELSE grabbed

\* PhysicsUpdate that lets gravity act on the held object too
PhysicsHeldFalls(bs, held, ref) ==
    IF held # NoBox THEN Gravity(MoveHeld(bs, held, ref)) ELSE Gravity(bs)

\* "Update Physics/Position": the queued object collection
PhysicsUpdate(bs, held, ref) ==
    IF held # NoBox THEN MoveHeld(bs, held, ref) ELSE Gravity(bs)

TipChoices == {ikTargetPos} \cup StrayTips

\* "IK Logic" of the frame callback: the joints queued, solved being what
\* solveIK returned
IkLogic(solved) == IF ikMode \/ phase # "IDLE" THEN solved ELSE pending.joints

\* The frame's writes, given the outcome s of its sequence logic, the joints
\* solveIK returned, the gripper reference point ref and the object held
\* after its grab/release handling
FrameWrites(s, solved, ref, held) ==
    /\ pending' = [pending EXCEPT
                     !.phase = s.phase,
                     !.gripperOpen = s.gripperOpen,
                     !.ikTargetPos = s.ikTargetPos,
                     !.isSequenceRunning = s.isSequenceRunning,
                     !.joints = IkLogic(solved),
                     !.boxes = PhysicsUpdate(pending.boxes, held, ref)]
    /\ phaseStartTime' = s.phaseStartTime
    /\ now' = s.now
    /\ startPos' = s.startPos
    /\ endPos' = s.endPos
    /\ heldBoxId' = held
    /\ prevGripperOpen' = gripperOpen
    /\ tipPos' = IF (prevGripperOpen /\ ~gripperOpen) \/ held # NoBox THEN ref ELSE NoTip
    /\ completions' = completions + s.fired
    /\ gripWrites' = gripWrites \o s.writes

\* useFrame((state, delta) => ...), run when Date.now() has moved on by dt
\* since the previous frame.  The clock is read only during a run, and a
\* queued render is never late by a whole time unit.  solved is what the
\* frame's solveIK(ikTargetPos, joints, 5) returns.
Tick(tip, dt, solved) ==
    /\ pending = Committed \/ staleTicks < MaxStale
    /\ dt = 0 \/ (phase # "IDLE" /\ pending = Committed)
    /\ \E s \in {SequenceLogic(now + dt)}, held \in {HeldAfter(GripperReference(tip))} :
          FrameWrites(s, solved, GripperReference(tip), held)
    /\ staleTicks' = IF pending = Committed THEN 0 ELSE staleTicks + 1
    /\ UNCHANGED <<phase, gripperOpen, boxes, ikTargetPos, sequenceTrigger,
                   isSequenceRunning, joints, ikMode, targetBoxId, lastTrigger,
                   visited, call>>

\* TriggerQueued without onSequenceComplete() in the no-object branch
TriggerSilent(p) ==
    IF p.sequenceTrigger > lastTrigger /\ FindAvailable(p.boxes) # 0
    THEN [p EXCEPT !.phase = "APPROACH", !.gripperOpen = TRUE]
    ELSE p

\* TriggerQueued without setGripperOpen(true)
TriggerKeepsGripper(p) ==
    IF p.sequenceTrigger > lastTrigger
    THEN IF FindAvailable(p.boxes) # 0
         THEN [p EXCEPT !.phase = "APPROACH"]
         ELSE [p EXCEPT !.isSequenceRunning = FALSE]
    ELSE p

\* The "Trigger Sequence" effect of SimulationController, run after a render
\* that committed p: the state it queues on top of p.
TriggerQueued(p) ==
    IF p.sequenceTrigger > lastTrigger
    THEN IF FindAvailable(p.boxes) # 0
         THEN [p EXCEPT !.phase = "APPROACH", !.gripperOpen = TRUE]
         ELSE [p EXCEPT !.isSequenceRunning = FALSE]
    ELSE p

\* calculateChain(joints).endEffector as the model has it: computed on whole
\* quarter turns, one of FkTips elsewhere
EndEffector(j) == IF QuarterTurns(j) THEN {CalculateChain(j).endEffector} ELSE FkTips

\* The effect of Scene run after a render that switched IK mode on: the IK
\* target it queues (the target of p when the effect does not run)
IkModeTarget(p) ==
    IF p.ikMode /\ ~ikMode THEN EndEffector(p.joints) ELSE {p.ikTargetPos}

\* A render commits the queued state p (every closure now reads p) and runs
\* the effects.  done is the number of completion calls counted so far.
Flush(p, done) ==
    LET accepted == p.sequenceTrigger > lastTrigger
        i == FindAvailable(p.boxes)
        found == accepted /\ i # 0
    IN  /\ phase' = p.phase
        /\ gripperOpen' = p.gripperOpen
        /\ boxes' = p.boxes
        /\ ikTargetPos' = p.ikTargetPos
        /\ sequenceTrigger' = p.sequenceTrigger
        /\ isSequenceRunning' = p.isSequenceRunning
        /\ joints' = p.joints
        /\ ikMode' = p.ikMode
        /\ \E fk \in IkModeTarget(p) :
              pending' = [TriggerQueued(p) EXCEPT !.ikTargetPos = fk]
        /\ lastTrigger' = IF accepted THEN p.sequenceTrigger ELSE lastTrigger
        /\ targetBoxId' = IF found THEN p.boxes[i].id ELSE targetBoxId
        /\ phaseStartTime' = IF found THEN 0 ELSE phaseStartTime
        /\ now' = IF found THEN 0 ELSE now
        /\ startPos' = IF found THEN p.ikTargetPos ELSE startPos
        /\ endPos' = IF found
                     THEN Add(p.boxes[i].pos, <<0, APPROACH_HEIGHT, 0>>)
                     ELSE endPos
        /\ gripWrites' = IF found THEN <<<<"APPROACH", TRUE>>>> ELSE gripWrites
        /\ completions' = IF accepted /\ ~found THEN done + 1 ELSE done
        /\ visited' = IF p.phase = phase THEN visited
                      ELSE IF phase = "IDLE" THEN <<p.phase>>
                      ELSE Append(visited, p.phase)
        /\ staleTicks' = 0
        /\ UNCHANGED <<heldBoxId, prevGripperOpen, tipPos, call>>

Commit ==
    /\ pending # Committed
    /\ Flush(pending, completions)

\* ------------------------------------------------------------ user controls
\* ControlsEnabled of a panel that never disables a control
ControlsNeverDisabled == TRUE

\* disabled={isSequenceRunning} of the reset button, the IK mode switch, the
\* run button and the gripper button
ControlsEnabled == ~isSequenceRunning

\* App.handleRunSequence
RunSequence ==
    /\ ControlsEnabled
    /\ ikMode
    /\ sequenceTrigger < MaxTriggers
    /\ Flush([pending EXCEPT !.sequenceTrigger = @ + 1, !.isSequenceRunning = TRUE], 0)

\* Reset without setJoints(INITIAL_JOINTS)
ResetKeepsJoints ==
    /\ ControlsEnabled
    /\ Flush([pending EXCEPT !.gripperOpen = TRUE,
                             !.ikMode = FALSE, !.isSequenceRunning = FALSE],
             completions)

\* App.reset
Reset ==
    /\ ControlsEnabled
    /\ Flush([pending EXCEPT !.joints = INITIAL_JOINTS, !.gripperOpen = TRUE,
                             !.ikMode = FALSE, !.isSequenceRunning = FALSE],
             completions)

\* the panel's IK switch: setIkMode(e.target.checked)
SetIkMode ==
    /\ ControlsEnabled
    /\ Flush([pending EXCEPT !.ikMode = ~ikMode], completions)

\* SliderValue of a range input without min and max
SliderUnbounded(key, raw) == raw

\* <input type="range" min max step>: the value the slider of joint key
\* reports for a thumb position raw
SliderValue(key, raw) == Clamp(raw, LIMITS[key].min, LIMITS[key].max)

\* Controls.updateJoint
UpdateJoint(key, val) ==
    /\ key \in DOMAIN pending.joints
    /\ Flush([pending EXCEPT !.joints = [@ EXCEPT ![key] = val]], completions)

\* onChange of a slider; only pointer events are switched off in IK mode,
\* the sliders can still be moved from the keyboard
SliderEdit ==
    \E key \in SliderKeys, raw \in SliderInputs : UpdateJoint(key, SliderValue(key, raw))

\* the panel's gripper switch: setGripperOpen(!gripperOpen)
ToggleGripper ==
    /\ ControlsEnabled
    /\ Flush([pending EXCEPT !.gripperOpen = ~gripperOpen], completions)

\* App.handleAddObject
AddObject(shape, spot) ==
    /\ Len(pending.boxes) < Len(InitialBoxes) + MaxSpawn
    /\ Flush([pending EXCEPT !.boxes =
                Append(@, Box(SpawnIds[Len(@) - Len(InitialBoxes) + 1],
                              <<spot[1], GroundOffset(shape), spot[2]>>, shape))],
             completions)

Spawn == \E shape \in SpawnShapes, spot \in SpawnSpots : AddObject(shape, spot)

\* onObjectChange of the IK target gizmo, which Scene renders in IK mode
DragTarget(spot) ==
    /\ ikMode
    /\ Flush([pending EXCEPT !.ikTargetPos = spot], completions)

Drag == \E spot \in DragSpots : DragTarget(spot)

\* A parent of Scene other than App may take an object out of the collection
\* it owns: setBoxes(prev => prev.filter(...))
RemoveObject(i) ==
    /\ i \in DOMAIN pending.boxes
    /\ Flush([pending EXCEPT !.boxes =
                SubSeq(@, 1, i - 1) \o SubSeq(@, i + 1, Len(@))],
             completions)

Remove == \E i \in 1..(Len(InitialBoxes) + MaxSpawn) : RemoveObject(i)

\* ------------------------------------------------------------ specification
InitWith(bs) ==
    /\ phase = "IDLE"
    /\ gripperOpen = TRUE
    /\ boxes = bs
    /\ ikTargetPos = INITIAL_IK_TARGET
    /\ sequenceTrigger = 0
    /\ isSequenceRunning = FALSE
    /\ joints = INITIAL_JOINTS
    /\ ikMode = FALSE
    /\ pending = Committed
    /\ heldBoxId = NoBox
    /\ prevGripperOpen = TRUE
    /\ phaseStartTime = 0
    /\ startPos = <<0, 0, 0>>
    /\ endPos = <<0, 0, 0>>
    /\ targetBoxId = NoBox
    /\ lastTrigger = 0
    /\ now = 0
    /\ tipPos = NoTip
    /\ staleTicks = 0
    /\ completions = 0
    /\ visited = <<>>
    /\ gripWrites = <<>>
    /\ call = NoCall

\* App: the three objects of its initial state
Init == InitWith(InitialBoxes)

\* Neither the sequencer nor the tracker reads the joints: their frames take
\* the solver to return the joints it was given (every damped angle 0).
Frame == \E tip \in TipChoices, dt \in ClockSteps : Tick(tip, dt, joints)

\* The sequencer under App: runs are triggered, the gripper is switched by
\* hand between runs.
Next ==
    \/ Frame
    \/ Commit
    \/ SetIkMode
    \/ RunSequence
    \/ ToggleGripper
    \/ Reset

Spec == Init /\ [][Next]_vars

\* The sequencer under App with the IK target gizmo, which stays on the
\* screen and can be dragged while a run is on.  The rendered tip stays
\* away from every object, so that the runs differ in their waypoints only.
GizmoFrame == \E tip \in StrayTips, dt \in ClockSteps : Tick(tip, dt, joints)

GizmoNext ==
    \/ GizmoFrame
    \/ Commit
    \/ SetIkMode
    \/ RunSequence
    \/ Drag

GizmoSpec == Init /\ [][GizmoNext]_vars

\* a frame that reads a clock moved on by a time unit
TimedFrame == \E tip \in TipChoices : Tick(tip, 1, joints)

\* Spec with renders that are always committed and frames that keep coming
\* while the clock keeps advancing
LiveSpec == Spec /\ WF_vars(Commit) /\ SF_vars(TimedFrame)

\* The tracker under App with the arm moved by hand: no run is triggered,
\* the tip is anywhere in ManualTips, objects are spawned.
ManualFrame == \E tip \in ManualTips : Tick(tip, 0, joints)

TrackerNext ==
    \/ ManualFrame
    \/ Commit
    \/ ToggleGripper
    \/ Reset
    \/ Spawn

TrackerSpec == Init /\ [][TrackerNext]_vars

\* The tracker with the arm moved by hand and the gripper switched by hand,
\* where the frames keep coming (requestAnimationFrame) and every queued
\* render is committed.
DropNext ==
    \/ ManualFrame
    \/ Commit
    \/ ToggleGripper

DropSpec == Init /\ [][DropNext]_vars /\ WF_vars(ManualFrame) /\ WF_vars(Commit)

\* The joint angles under App: moved by the sliders and by the solver of a
\* frame in IK mode, which turns every joint it visits a quarter turn
\* forward (j1 backward) until its limit, and set by reset.  No run is
\* triggered.
IkFrame ==
    \E tip \in StrayTips, far \in IkFar :
        Tick(tip, 0, SolveIK(ikTargetPos, joints, IK_ITERATIONS, HALF_PI, far))

JointNext ==
    \/ SliderEdit
    \/ SetIkMode
    \/ Drag
    \/ IkFrame
    \/ Commit
    \/ Reset

JointSpec == Init /\ [][JointNext]_vars

\* The kinematics functions called on their own, once: call records the call
\* with its arguments and what it returned.
appVars ==
    <<phase, gripperOpen, boxes, ikTargetPos, sequenceTrigger, isSequenceRunning,
      joints, ikMode, pending, heldBoxId, prevGripperOpen, phaseStartTime, startPos,
      endPos, targetBoxId, lastTrigger, now, tipPos, staleTicks, completions,
      visited, gripWrites>>

QuarterPoses == [{"j1", "j2", "j3", "j4", "j5", "j6"} -> QuarterAngles]

CallSolveIK ==
    /\ call = NoCall
    /\ \E target \in IkTargets, j \in IkInputs, n \in IterationCounts,
          angle \in IkAngles, far \in IkFar :
          call' = [op |-> "solveIK", target |-> target, joints |-> j,
                   iterations |-> n, result |-> SolveIK(target, j, n, angle, far)]
    /\ UNCHANGED appVars

CallCalculateChain ==
    /\ call = NoCall
    /\ \E j \in QuarterPoses :
          call' = [op |-> "calculateChain", joints |-> j, result |-> CalculateChain(j)]
    /\ UNCHANGED appVars

\* RobotArm rendered with joints j; tip is the world position of tipRef
RenderRobotArm ==
    /\ call = NoCall
    /\ \E j \in QuarterPoses :
          call' = [op |-> "RobotArm", joints |-> j, tip |-> RenderedTip(j)]
    /\ UNCHANGED appVars

KinNext ==
    \/ CallSolveIK
    \/ CallCalculateChain
    \/ RenderRobotArm

KinSpec == Init /\ [][KinNext]_vars

\* Scene under a parent that owns the object collection: the collection
\* starts as any of SceneCollections and the parent may remove objects.
SceneCollections ==
    {<<>>,
     <<Box("1", <<-1200, BOX_SIZE \div 2, 0>>, "box")>>,
     <<Box("1", <<1200, BOX_SIZE \div 2, 0>>, "box")>>,
     <<Box("1", <<-1200, BOX_SIZE \div 2, 0>>, "box"),
       Box("2", <<1200, BOX_SIZE \div 2, 450>>, "box")>>}

SceneInit == \E bs \in SceneCollections : InitWith(bs)

SceneNext ==
    \/ Frame
    \/ Commit
    \/ SetIkMode
    \/ RunSequence
    \/ ToggleGripper
    \/ Reset
    \/ Remove

SceneSpec == SceneInit /\ [][SceneNext]_vars


\* ------------------------------------------------------------------- claims
RunOrder ==
    <<"APPROACH", "DESCEND_PICK", "GRIP", "LIFT_PICK", "TRAVEL", "DESCEND_DROP",
      "RELEASE", "LIFT_DROP", "HOME", "IDLE">>

IsPrefix(a, b) == Len(a) <= Len(b) /\ a = SubSeq(b, 1, Len(a))

\* C1: the phases committed since a run was triggered follow the fixed order
\* APPROACH, DESCEND_PICK, GRIP, LIFT_PICK, TRAVEL, DESCEND_DROP, RELEASE,
\* LIFT_DROP, HOME, IDLE, or are APPROACH, IDLE on the abort: none is skipped,
\* entered twice or entered out of order.
C1_PhaseOrder == IsPrefix(visited, RunOrder) \/ visited = <<"APPROACH", "IDLE">>

\* a full run has gone through all nine phases and is back in IDLE
C1_FullRun == visited = RunOrder

\* the last accepted trigger's run is over and nothing of it is queued
RunOver ==
    /\ sequenceTrigger > 0
    /\ lastTrigger = sequenceTrigger
    /\ phase = "IDLE"
    /\ pending.phase = "IDLE"

\* C2: onSequenceComplete is called exactly once per accepted trigger: never
\* twice, and once when its run is over.
C2_CompletionExactlyOnce ==
    /\ completions <= 1
    /\ RunOver => completions = 1


\* C3: with frames and renders that keep coming and a clock that keeps
\* advancing, a run that is under way always ends: the phase becomes IDLE
\* again, whatever the arm reached or grasped.
C3_RunTerminates == (phase # "IDLE") ~> (phase = "IDLE")

\* a run goes on after a grasp that took no object
C3_RunWithoutGrasp == phase = "LIFT_PICK" /\ heldBoxId = NoBox

NoObjectInPickRegion(bs) == \A i \in DOMAIN bs : bs[i].pos[1] <= 0

\* C4: a render that accepts a trigger while no object has x > 0 leaves the
\* phase IDLE, queues no phase and no gripper write, changes no waypoint and
\* no target selection, calls onSequenceComplete once and queues the
\* sequence-running flag back to false.
C4_NoObjectTrigger ==
    [][(lastTrigger' # lastTrigger /\ NoObjectInPickRegion(boxes'))
         => /\ phase' = "IDLE"
            /\ pending'.phase = "IDLE"
            /\ pending'.gripperOpen = gripperOpen'
            /\ gripWrites' = gripWrites
            /\ startPos' = startPos
            /\ endPos' = endPos
            /\ targetBoxId' = targetBoxId
            /\ completions' = 1
            /\ pending'.isSequenceRunning = FALSE]_vars

\* a trigger was accepted with an object present but none at x > 0, no run
\* ever started and the sequence-running flag is back to false
C4_NoObjectTriggered ==
    /\ lastTrigger > 0
    /\ Len(boxes) > 0
    /\ NoObjectInPickRegion(boxes)
    /\ visited = <<>>
    /\ completions = 1
    /\ ~isSequenceRunning

TargetMissing == \A i \in DOMAIN boxes : boxes[i].id # targetBoxId

\* C5: while the phase is APPROACH and the selected object is not in the
\* collection, no step commits or queues DESCEND_PICK; the frame at the end
\* of APPROACH queues IDLE and calls onSequenceComplete.
C5_AbortToIdle ==
    [][(phase = "APPROACH" /\ TargetMissing)
         => /\ phase' \in {"APPROACH", "IDLE"}
            /\ pending'.phase \in {"APPROACH", "IDLE"}
            /\ (\E tip \in TipChoices, dt \in ClockSteps :
                    /\ Tick(tip, dt, joints)
                    /\ pending.phase = "APPROACH"
                    /\ Arrived(startPos, endPos, now + dt - phaseStartTime))
                 => /\ pending'.phase = "IDLE"
                    /\ completions' = completions + 1
                    /\ ~pending'.isSequenceRunning]_vars

\* a run went from APPROACH straight back to IDLE and signalled completion
C5_Aborted == visited = <<"APPROACH", "IDLE">> /\ completions = 1 /\ ~isSequenceRunning

ClosedPhases == {"GRIP", "LIFT_PICK", "TRAVEL", "DESCEND_DROP"}
OpenPhases == {"APPROACH", "DESCEND_PICK", "RELEASE", "LIFT_DROP", "HOME"}

\* C6: in every state of a run the gripper-open flag is false from GRIP up
\* to RELEASE and true in the other phases and in the IDLE state the run
\* returns to, whatever the flag was when the trigger arrived.
C6_GripperDuringRun ==
    [][/\ phase' \in ClosedPhases => ~gripperOpen'
       /\ phase' \in OpenPhases => gripperOpen'
       /\ (phase # "IDLE" /\ phase' = "IDLE") => gripperOpen']_vars

\* a run triggered with the gripper closed is in APPROACH with the flag open
\* before the tracker has seen it open
C6_TriggeredClosed == phase = "APPROACH" /\ gripperOpen /\ ~prevGripperOpen

\* C7 as claimed: from the trigger to the return to IDLE the sequencer
\* writes the gripper flag only closed at GRIP entry and open at RELEASE
\* entry, and a full run has made exactly these two writes.
C7_OnlyGripAndRelease ==
    /\ \A i \in DOMAIN gripWrites :
          gripWrites[i] \in {<<"GRIP", FALSE>>, <<"RELEASE", TRUE>>}
    /\ (RunOver /\ visited = RunOrder)
         => gripWrites = <<<<"GRIP", FALSE>>, <<"RELEASE", TRUE>>>>

SequencerWrites == <<<<"APPROACH", TRUE>>, <<"GRIP", FALSE>>, <<"RELEASE", TRUE>>>>

\* C7 amended: the sequencer writes the gripper flag at exactly three points
\* of a run, once each and in this order: open when the trigger is accepted
\* (APPROACH is queued), closed when GRIP is queued, open when RELEASE is
\* queued.
C7_ThreeWrites ==
    /\ IsPrefix(gripWrites, SequencerWrites)
    /\ pending.phase \in {"APPROACH", "DESCEND_PICK"} => Len(gripWrites) = 1
    /\ pending.phase \in ClosedPhases => Len(gripWrites) = 2
    /\ pending.phase \in {"RELEASE", "LIFT_DROP", "HOME"} => Len(gripWrites) = 3
    /\ (RunOver /\ visited = RunOrder) => gripWrites = SequencerWrites

\* a full run is over and all three writes were made
C7_RunWritesSeen == RunOver /\ visited = RunOrder /\ gripWrites = SequencerWrites

\* C8: a frame that sees the gripper go from open to closed holds the object
\* nearest to the gripper reference point when that distance is below 1.2,
\* and holds nothing when no object is within 1.2.
C8_GraspsClosest ==
    [][(prevGripperOpen /\ ~prevGripperOpen')
         => LET within == {i \in DOMAIN boxes :
                             DistSq(tipPos', boxes[i].pos) < 360 * 360}
            IN  IF within = {} THEN heldBoxId' = NoBox
                ELSE \E i \in within :
                        /\ heldBoxId' = boxes[i].id
                        /\ \A j \in DOMAIN boxes :
                              DistSq(tipPos', boxes[i].pos)
                                 <= DistSq(tipPos', boxes[j].pos)]_vars

\* the first object, 0.5 from the reference point, is held; the second was
\* 1.0 away and the third 2.0
C8_GraspedAtHalf ==
    /\ ~prevGripperOpen
    /\ heldBoxId = "1"
    /\ tipPos = <<1200, 120, 150>>
    /\ Len(boxes) = 3
    /\ boxes[1].pos = <<1200, 120, 0>>
    /\ boxes[2].pos = <<1200, 120, 450>>
    /\ boxes[3].pos = <<1200, 120, -450>>

\* C9: after every frame in which an object is held, the position queued for
\* that object is the gripper reference point the frame computed: it follows
\* the gripper and does not fall.
C9_HeldFollowsGripper ==
    heldBoxId # NoBox
      => /\ \E i \in DOMAIN pending.boxes : pending.boxes[i].id = heldBoxId
         /\ \A i \in DOMAIN pending.boxes :
               pending.boxes[i].id = heldBoxId => pending.boxes[i].pos = tipPos

\* an object is held in the air, at the reference point
C9_HeldAirborne ==
    /\ heldBoxId # NoBox
    /\ tipPos[2] > 500
    /\ \E i \in DOMAIN pending.boxes :
          pending.boxes[i].id = heldBoxId /\ pending.boxes[i].pos = tipPos

RestingHeight(shape) == IF shape = "sphere" THEN 160 ELSE 120

\* C10: a frame after which no object is held lowers every object that is
\* more than 0.01 above its resting height (0.4, sphere 0.8/1.5) by 0.2, but
\* not below the resting height, and changes nothing else of any object.
C10_GravityStep ==
    [][(ManualFrame /\ heldBoxId' = NoBox)
         => /\ Len(pending'.boxes) = Len(pending.boxes)
            /\ \A i \in DOMAIN pending.boxes :
                 LET b == pending.boxes[i]
                     r == RestingHeight(b.shape)
                 IN  pending'.boxes[i] =
                        IF b.pos[2] > r + 3
                        THEN [b EXCEPT !.pos = <<b.pos[1],
                                                 IF b.pos[2] - 60 > r
                                                 THEN b.pos[2] - 60 ELSE r,
                                                 b.pos[3]>>]
                        ELSE b]_vars

\* the first frame after a box was released at height 3: it is at 2.8
C10_ReleasedAtThree ==
    /\ heldBoxId = NoBox
    /\ \E i \in DOMAIN pending.boxes :
          /\ pending.boxes[i].shape = "box"
          /\ pending.boxes[i].pos = <<-1200, 840, 0>>

\* C11: whatever joints (in or out of their ranges), target and iteration
\* count solveIK is given, every joint angle j1..j6 it returns lies within
\* that joint's [min, max].
C11_SolvedWithinLimits == call.op = "solveIK" => WithinLimits(call.result)

\* C12: with all six joint angles 0, calculateChain returns the tip
\* (0, 8.1, 0), the sum 1.1 + 4 + 1.5 + 0.2 + 0.8 + 0.5 of the link offsets
\* along the vertical axis, and 7 anchor positions in base-to-tip order.
C12_ZeroPoseTip ==
    (call.op = "calculateChain" /\ \A k \in DOMAIN call.joints : call.joints[k] = 0)
        => /\ call.result.endEffector = <<0, 330 + 1200 + 450 + 60 + 240 + 150, 0>>
           /\ call.result.endEffector = <<0, 2430, 0>>
           /\ Len(call.result.positions) = 7
           /\ call.result.positions[7] = call.result.endEffector
           /\ call.result.positions[1] = <<0, 330, 0>>
           /\ \A i \in 1..6 :
                 /\ call.result.positions[i][1] = 0
                 /\ call.result.positions[i][3] = 0
                 /\ call.result.positions[i][2] <= call.result.positions[i + 1][2]

C12_ZeroPoseCalled ==
    /\ call.op = "calculateChain"
    /\ call.joints = INITIAL_JOINTS
    /\ Len(call.result.positions) = 7

\* C20: for every joint configuration the tip calculateChain returns is the
\* world position of the rendered arm's TCP reference group, the one the
\* tracker reads; at all-zero joints both chains give the same tip height.
C20_ChainMatchesArm ==
    call.op = "RobotArm" => call.tip = CalculateChain(call.joints).endEffector

\* C13: the reset operation sets the joint angles to the home configuration
\* j1 = 0, j2 = 0.2, j3 = 0.5, j4 = 0, j5 = -0.5, j6 = 0, the configuration
\* whose forward-kinematics tip ends the HOME phase.
C13_ResetToHome ==
    [][Reset => joints' = [j1 |-> 0, j2 |-> 20, j3 |-> 50, j4 |-> 0, j5 |-> -50, j6 |-> 0]]_vars

\* C13, amended: the reset operation sets all six joint angles to 0, the
\* initial configuration.
C13_ResetToZero ==
    [][Reset => /\ \A k \in DOMAIN joints' : joints'[k] = 0
                /\ pending'.joints = joints']_vars

\* The joints are back at 0 with the IK target still on the tip of the pose
\* with the shoulder at a quarter turn: no slider position and no solver
\* step of JointSpec takes j2 from there to 0, only reset does.
C13_ResetFromQuarterTurn ==
    /\ \A k \in DOMAIN joints : joints[k] = 0
    /\ ikTargetPos = CalculateChain([INITIAL_JOINTS EXCEPT !.j2 = HALF_PI]).endEffector
    /\ ~ikMode

MovementPhases ==
    {"APPROACH", "DESCEND_PICK", "LIFT_PICK", "TRAVEL", "DESCEND_DROP", "LIFT_DROP",
     "HOME"}

\* C15: a movement phase is left at the first tick whose time since the
\* phase's entry is at least max(0.5 s, d / 4.0 s), d being the distance
\* between the phase's own start and end waypoints, and at no earlier tick;
\* the IK target written at that tick is the phase's end waypoint.  (A time
\* unit is 0.5 s and a length unit 1/300, so d / 4.0 s is d / 600 units.)
C15_LeftWhenDue ==
    [][\A tip \in StrayTips, dt \in ClockSteps :
          (/\ Tick(tip, dt, joints)
           /\ phase \in MovementPhases
           /\ pending.phase = phase)
          => LET elapsed == now + dt - phaseStartTime
                 due == /\ elapsed >= 1
                        /\ (elapsed * 600) * (elapsed * 600) >= DistSq(startPos, endPos)
             IN  /\ due => /\ pending'.phase # phase
                           /\ pending'.ikTargetPos = endPos
                 /\ ~due => pending'.phase = phase]_vars

\* TRAVEL, longer than 0.5 s, has just been left for DESCEND_DROP with the
\* IK target on its end waypoint, 3 above the drop area
C15_TravelLeft ==
    /\ phase = "TRAVEL"
    /\ pending.phase = "DESCEND_DROP"
    /\ pending.ikTargetPos = <<-1200, 900, 0>>
    /\ DistSq(pending.ikTargetPos, ikTargetPos) > 0

\* C16: GRIP and RELEASE each end at the first tick at which more than
\* 0.5 s (one time unit) has elapsed since the phase was entered, however
\* long the descent before them was.
C16_DwellHalfSecond ==
    [][\A tip \in StrayTips, dt \in ClockSteps :
          (/\ Tick(tip, dt, joints)
           /\ phase \in {"GRIP", "RELEASE"}
           /\ pending.phase = phase)
          => LET elapsed == now + dt - phaseStartTime
             IN  /\ elapsed > 1 => pending'.phase # phase
                 /\ elapsed <= 1 => pending'.phase = phase]_vars

\* C19: while the phase is GRIP or RELEASE the IK target does not change
\* from one tick to the next: neither the sequencer nor any other enabled
\* input, the target's drag handle included, modifies it.
C19_TargetFixedInDwell ==
    [][(phase = "GRIP" \/ phase = "RELEASE")
          => (ikTargetPos' = ikTargetPos /\ pending'.ikTargetPos = pending.ikTargetPos)]_vars

\* C17: while the phase is not IDLE no new trigger is accepted: the run in
\* flight is not restarted at APPROACH and its target object is not
\* replaced; a run ends only from HOME or by the object-lost abort of
\* APPROACH.  Whenever the phase is not IDLE the sequence-running flag is
\* set, which disables the trigger, reset, gripper and IK mode controls.
C17_NoTriggerInFlight ==
    /\ [](phase # "IDLE" => (isSequenceRunning /\ ~ENABLED RunSequence
                                /\ ~ENABLED Reset /\ ~ENABLED ToggleGripper
                                /\ ~ENABLED SetIkMode))
    /\ [][phase # "IDLE"
            => /\ lastTrigger' = lastTrigger
               /\ sequenceTrigger' = sequenceTrigger
               /\ pending'.sequenceTrigger = sequenceTrigger
               /\ targetBoxId' = targetBoxId
               /\ phase # "APPROACH" => (phase' # "APPROACH" /\ pending'.phase # "APPROACH")
               /\ phase' = "IDLE"
                     => (phase = "HOME" \/ (phase = "APPROACH" /\ TargetMissing))]_vars

\* the second run is in flight at TRAVEL, its trigger accepted
C17_RunInFlight ==
    /\ phase = "TRAVEL"
    /\ isSequenceRunning
    /\ sequenceTrigger = 2
    /\ lastTrigger = 2
    /\ targetBoxId # NoBox

\* C18: at most one object is marked held, and only while the gripper flag
\* the tracker sampled last is closed: after a tick that observes the
\* gripper open no object is held, and the released object stays where it
\* was at release but for the fall of gravity (at most 0.2 a tick).
C18_HeldOnlyWhileClosed ==
    /\ [](/\ Cardinality({i \in DOMAIN pending.boxes : pending.boxes[i].id = heldBoxId}) <= 1
          /\ heldBoxId # NoBox => ~prevGripperOpen)
    /\ [][\A tip \in ManualTips :
            Tick(tip, 0, joints)
              => /\ gripperOpen => heldBoxId' = NoBox
                 /\ (heldBoxId # NoBox /\ heldBoxId' = NoBox)
                       => \A i \in DOMAIN pending.boxes :
                             pending.boxes[i].id = heldBoxId
                               => /\ pending'.boxes[i].pos[1] = pending.boxes[i].pos[1]
                                  /\ pending'.boxes[i].pos[3] = pending.boxes[i].pos[3]
                                  /\ pending'.boxes[i].pos[2] <= pending.boxes[i].pos[2]
                                  /\ pending'.boxes[i].pos[2] >= pending.boxes[i].pos[2] - 60]_vars

\* two ticks after its release at height 3 above the drop area the object
\* has fallen to 2.6; the tracker has sampled the gripper open
C18_ReleasedAndFalling ==
    /\ heldBoxId = NoBox
    /\ prevGripperOpen
    /\ gripperOpen
    /\ \E i \in DOMAIN pending.boxes : pending.boxes[i].pos = <<-1200, 780, 0>>

\* the phases that are given a start waypoint when they are entered
PhasesAfterApproach ==
    {"DESCEND_PICK", "LIFT_PICK", "TRAVEL", "DESCEND_DROP", "LIFT_DROP", "HOME"}

\* C21: a frame that ends a phase and enters a movement phase after
\* APPROACH gives the new phase, as its start waypoint, the end waypoint of
\* the phase it ends (the IK target written at t = 1), so that the first
\* tick of the new phase does not take the IK target back.
C21_StartIsPreviousEnd ==
    [][(/\ pending.phase = phase
        /\ pending'.phase # phase
        /\ pending'.phase \in PhasesAfterApproach)
          => startPos' = endPos]_vars

\* object i is in the air: more than 0.01 above its resting height
Airborne(i) ==
    /\ i \in DOMAIN pending.boxes
    /\ pending.boxes[i].pos[2] > RestingHeight(pending.boxes[i].shape) + 3

\* object i is the held one
Held(i) == i \in DOMAIN pending.boxes /\ pending.boxes[i].id = heldBoxId

\* C22: while the frames keep coming, every object that is in the air and
\* is not the held one comes to within 0.01 of its resting height after
\* finitely many ticks (unless it is grasped again first): no ungrasped
\* object stays in the air forever.
C22_AirborneLands ==
    \A i \in 1..Len(InitialBoxes) :
        (Airborne(i) /\ ~Held(i)) ~> (~Airborne(i) \/ Held(i))

====
